---- MODULE Spec2Model ----
(***************************************************************************)
(* Model of the translation engine of src/localize.ts: the substitution    *)
(* engine (applyTranslation, escapeRegex), the document loader             *)
(* (loadTranslationFile) and the batch applier of main (processModule).    *)
(* The command line is that of main of src/unnamed/part_005: the launch    *)
(* by command name, --install (installOpenCode), --upgrade                 *)
(* (upgradeOpenCode, the same code as in src/localize.ts), --run and the   *)
(* localization flow, with getOpenCodeDir locating the tree.               *)
(*                                                                         *)
(* A JavaScript string is a sequence of one-character strings; a path is   *)
(* the sequence of its "/"-separated segments.                             *)
(***************************************************************************)
EXTENDS Integers, Sequences, FiniteSets, TLC

\* ------------------------------------------------------------------------
\* Bounds of the model
\* ------------------------------------------------------------------------
MaxContentLen == 3
MaxPairs == 2
MaxCalls == 2

\* ------------------------------------------------------------------------
\* JavaScript values
\* ------------------------------------------------------------------------
\* the value undefined where a string or a path is expected
Undefined == <<"<undefined>">>

\* a test for undefined only
FalsyUndefinedOnly(x) == x = Undefined

\* !x for a string or a path x: undefined and "" are falsy
Falsy(x) == x = Undefined \/ x = <<>>

\* a || b
Or(a, b) == IF Falsy(a) THEN b ELSE a

\* ------------------------------------------------------------------------
\* escapeRegex and the platform's RegExp / String.prototype.match / replace
\* ------------------------------------------------------------------------
\* the character class [.*+?^${}()|[\]\\] of escapeRegex
RegexSpecial == {".", "*", "+", "?", "^", "$", "{", "}", "(", ")", "|", "[", "]", "\\"}

RECURSIVE escapeRegexNoDot(_)
\* escapeRegex with "." missing from the character class
escapeRegexNoDot(str) ==
  IF str = <<>> THEN <<>>
  ELSE (IF Head(str) \in (RegexSpecial \ {"."}) THEN <<"\\", Head(str)>> ELSE <<Head(str)>>)
         \o escapeRegexNoDot(Tail(str))

RECURSIVE escapeRegex(_)
\* str.replace(/[.*+?^${}()|[\]\\]/g, "\\$&"): a backslash before every special character
escapeRegex(str) ==
  IF str = <<>> THEN <<>>
  ELSE (IF Head(str) \in RegexSpecial THEN <<"\\", Head(str)>> ELSE <<Head(str)>>)
         \o escapeRegex(Tail(str))

RECURSIVE Compile(_)
\* The pattern language that reaches RegExp: an escaped character is that
\* literal character, "." is any character but a line terminator, "^" and "$"
\* are the input boundary assertions, every other character is itself.
Compile(p) ==
  IF p = <<>> THEN <<>>
  ELSE IF Head(p) = "\\" /\ Len(p) >= 2
    THEN <<[t |-> "lit", c |-> p[2]]>> \o Compile(SubSeq(p, 3, Len(p)))
  ELSE IF Head(p) = "." THEN <<[t |-> "any", c |-> "."]>> \o Compile(Tail(p))
  ELSE IF Head(p) = "^" THEN <<[t |-> "bol", c |-> "^"]>> \o Compile(Tail(p))
  ELSE IF Head(p) = "$" THEN <<[t |-> "eol", c |-> "$"]>> \o Compile(Tail(p))
  ELSE <<[t |-> "lit", c |-> Head(p)]>> \o Compile(Tail(p))

\* new RegExp(pattern, flags)
RegExp(pattern, flags) ==
  [atoms |-> Compile(pattern), global |-> "g" \in flags, ignoreCase |-> "i" \in flags]

LineTerminators == {"\n", "\r"}

\* canonical case folding of the letters of the model's alphabet
Canonicalize(c) == IF c = "a" THEN "A" ELSE IF c = "b" THEN "B" ELSE c

CharMatches(a, ch, ignoreCase) ==
  \/ a.t = "any" /\ ch \notin LineTerminators
  \/ a.t = "lit" /\ (a.c = ch \/ (ignoreCase /\ Canonicalize(a.c) = Canonicalize(ch)))

RECURSIVE MatchAt(_, _, _, _)
\* the position after the match of atoms that starts at position i of s, 0 when there is none
MatchAt(atoms, s, i, ignoreCase) ==
  IF atoms = <<>> THEN i
  ELSE LET a == Head(atoms) IN
    IF a.t = "bol" THEN (IF i = 1 THEN MatchAt(Tail(atoms), s, i, ignoreCase) ELSE 0)
    ELSE IF a.t = "eol" THEN (IF i = Len(s) + 1 THEN MatchAt(Tail(atoms), s, i, ignoreCase) ELSE 0)
    ELSE IF i > Len(s) THEN 0
    ELSE IF CharMatches(a, s[i], ignoreCase) THEN MatchAt(Tail(atoms), s, i + 1, ignoreCase)
    ELSE 0

RECURSIVE AllMatchesNonEmpty(_, _, _)
\* the matches of at least one character: an empty match is passed over
AllMatchesNonEmpty(regex, s, lastIndex) ==
  IF lastIndex > Len(s) + 1 THEN <<>>
  ELSE LET e == MatchAt(regex.atoms, s, lastIndex, regex.ignoreCase) IN
    IF e = 0 \/ e = lastIndex THEN AllMatchesNonEmpty(regex, s, lastIndex + 1)
    ELSE <<[index |-> lastIndex, end |-> e]>> \o AllMatchesNonEmpty(regex, s, e)

RECURSIVE AllMatchesOverlapping(_, _, _)
\* every position the regex matches at, the next search starting one
\* position after the start of the last match
AllMatchesOverlapping(regex, s, lastIndex) ==
  IF lastIndex > Len(s) + 1 THEN <<>>
  ELSE LET e == MatchAt(regex.atoms, s, lastIndex, regex.ignoreCase) IN
    IF e = 0 THEN AllMatchesOverlapping(regex, s, lastIndex + 1)
    ELSE <<[index |-> lastIndex, end |-> e]>> \o AllMatchesOverlapping(regex, s, lastIndex + 1)

RECURSIVE AllMatches(_, _, _)
\* the successive matches of a global regex from lastIndex on: each search
\* starts where the previous match ended, one further after an empty match
AllMatches(regex, s, lastIndex) ==
  IF lastIndex > Len(s) + 1 THEN <<>>
  ELSE LET e == MatchAt(regex.atoms, s, lastIndex, regex.ignoreCase) IN
    IF e = 0 THEN AllMatches(regex, s, lastIndex + 1)
    ELSE <<[index |-> lastIndex, end |-> e]>>
           \o AllMatches(regex, s, IF e = lastIndex THEN lastIndex + 1 ELSE e)

\* content.match(regex) with the g flag: every match, <<>> standing for null
StringMatch(content, regex) == AllMatches(regex, content, 1)

RECURSIVE GetSubstitution(_, _, _)
\* the text String.prototype.replace inserts for the match m of str, the
\* regex having no capture groups: $$ is "$", $& the matched text, $` the
\* text before the match, $' the text after it, any other "$" is itself
GetSubstitution(str, m, replacement) ==
  IF replacement = <<>> THEN <<>>
  ELSE IF Head(replacement) = "$" /\ Len(replacement) >= 2
    THEN LET n == replacement[2]
             rest == SubSeq(replacement, 3, Len(replacement))
         IN IF n = "$" THEN <<"$">> \o GetSubstitution(str, m, rest)
            ELSE IF n = "&" THEN SubSeq(str, m.index, m.end - 1) \o GetSubstitution(str, m, rest)
            ELSE IF n = "`" THEN SubSeq(str, 1, m.index - 1) \o GetSubstitution(str, m, rest)
            ELSE IF n = "'" THEN SubSeq(str, m.end, Len(str)) \o GetSubstitution(str, m, rest)
            ELSE <<"$">> \o GetSubstitution(str, m, Tail(replacement))
  ELSE <<Head(replacement)>> \o GetSubstitution(str, m, Tail(replacement))

RECURSIVE ReplaceMatches(_, _, _, _)
\* str from position pos on, with each of the matches replaced
ReplaceMatches(str, matches, pos, replacement) ==
  IF matches = <<>> THEN SubSeq(str, pos, Len(str))
  ELSE LET m == Head(matches) IN
    SubSeq(str, pos, m.index - 1) \o GetSubstitution(str, m, replacement)
      \o ReplaceMatches(str, Tail(matches), m.end, replacement)

\* content.replace(regex, translated) with the g flag
StringReplace(content, regex, translated) ==
  ReplaceMatches(content, AllMatches(regex, content, 1), 1, translated)

\* ------------------------------------------------------------------------
\* Object.entries of the parsed replacements
\* ------------------------------------------------------------------------
Digits == {"0", "1", "2", "3", "4", "5", "6", "7", "8", "9"}

DigitVal(c) == CHOOSE n \in 0..9 : <<"0", "1", "2", "3", "4", "5", "6", "7", "8", "9">>[n + 1] = c

RECURSIVE DigitsLeq(_, _)
\* k <= l for digit strings of the same length
DigitsLeq(k, l) ==
  IF k = <<>> THEN TRUE
  ELSE IF DigitVal(Head(k)) # DigitVal(Head(l)) THEN DigitVal(Head(k)) < DigitVal(Head(l))
  ELSE DigitsLeq(Tail(k), Tail(l))

\* a property key that is an array index: a canonical numeric string of
\* value at most 2^32 - 2 = 4294967294
IsArrayIndex(k) ==
  /\ k # <<>>
  /\ Len(k) <= 10
  /\ \A i \in 1..Len(k) : k[i] \in Digits
  /\ (Len(k) = 1 \/ k[1] # "0")
  /\ (Len(k) = 10 => DigitsLeq(k, <<"4", "2", "9", "4", "9", "6", "7", "2", "9", "4">>))

RECURSIVE SortByIndex(_)
\* k <= l for two array indices
IndexLeq(k, l) == Len(k) < Len(l) \/ (Len(k) = Len(l) /\ DigitsLeq(k, l))

\* the pairs of S, whose keys are array indices, in ascending numeric order
SortByIndex(S) ==
  IF S = {} THEN <<>>
  ELSE LET m == CHOOSE p \in S : \A q \in S : IndexLeq(p[1], q[1])
       IN <<m>> \o SortByIndex(S \ {m})

\* Object.entries(obj) of the object parsed from a document that declares
\* the pairs in this order: array-index keys first, ascending, then the
\* other keys in declaration order
ObjectEntries(pairs) ==
  LET IsIdx(p) == IsArrayIndex(p[1])
      NotIdx(p) == ~IsArrayIndex(p[1])
  IN SortByIndex({pairs[i] : i \in {j \in 1..Len(pairs) : IsIdx(pairs[j])}})
       \o SelectSeq(pairs, NotIdx)

\* ------------------------------------------------------------------------
\* path.join and the disk
\* ------------------------------------------------------------------------
RECURSIVE NormalizeFrom(_, _)
\* path.normalize of a relative path: "" and "." segments dropped, ".."
\* removes the segment before it, and stays when there is none
NormalizeFrom(stack, rest) ==
  IF rest = <<>> THEN stack
  ELSE LET s == Head(rest) IN
    IF s = "" \/ s = "." THEN NormalizeFrom(stack, Tail(rest))
    ELSE IF s = ".."
      THEN IF stack # <<>> /\ stack[Len(stack)] # ".."
             THEN NormalizeFrom(SubSeq(stack, 1, Len(stack) - 1), Tail(rest))
             ELSE NormalizeFrom(Append(stack, ".."), Tail(rest))
    ELSE NormalizeFrom(Append(stack, s), Tail(rest))

\* path.join of relative paths
PathJoin(a, b) == NormalizeFrom(<<>>, a \o b)

RECURSIVE DropDotDot(_)
DropDotDot(p) == IF p # <<>> /\ Head(p) = ".." THEN DropDotDot(Tail(p)) ELSE p

\* path.join(dir, rel) for an absolute dir (the segments below "/"): ".." stops at "/"
PathJoinAbs(dir, rel) == DropDotDot(NormalizeFrom(<<>>, dir \o rel))

\* str.startsWith(seg + "/") for a path string
StartsWithDir(p, seg) == Len(p) >= 2 /\ p[1] = seg

NoEntry == [kind |-> "none", content |-> <<>>, writable |-> FALSE]

\* a test that takes every known path for an existing file
existsSyncKnownPath(disk, p) == p \in DOMAIN disk

\* fs.existsSync
existsSync(disk, p) == p \in DOMAIN disk /\ disk[p].kind # "none"

\* fs.readFileSync throws on a directory
ReadThrows(disk, p) == disk[p].kind # "file"

\* fs.writeFileSync throws on a file that is not writable
WriteThrows(disk, p) == ~disk[p].writable

\* ------------------------------------------------------------------------
\* applyTranslation
\* ------------------------------------------------------------------------
\* config.file / config.replacements of a parsed document: a key the
\* document does not have reads as undefined
HasKey(config, k) == k \in config.keys

ConfigFile(config) == IF HasKey(config, "file") THEN config.file ELSE Undefined

RECURSIVE ApplyPairsNoSkip(_, _, _, _)
\* no test of original === translated: a pair that maps a fragment to itself
\* matched, counted and replaced like any other
ApplyPairsNoSkip(entries, content, total, steps) ==
  IF entries = <<>> THEN [content |-> content, totalReplacements |-> total, steps |-> steps]
  ELSE LET original == Head(entries)[1]
           translated == Head(entries)[2]
           regex == RegExp(escapeRegex(original), {"g"})
           matches == StringMatch(content, regex)
           after == IF matches # <<>> THEN StringReplace(content, regex, translated)
                    ELSE content
       IN ApplyPairsNoSkip(Tail(entries), after, total + Len(matches),
            Append(steps, [original |-> original, translated |-> translated,
                           before |-> content, matches |-> matches, after |-> after]))

RECURSIVE ApplyPairsSnapshot(_, _, _, _)
\* the loop with every pair matched against, and replaced in, the content as
\* it was read from the file
ApplyPairsSnapshot(entries, content, total, steps) ==
  IF entries = <<>> THEN [content |-> content, totalReplacements |-> total, steps |-> steps]
  ELSE LET original == Head(entries)[1]
           translated == Head(entries)[2]
           snapshot == IF steps = <<>> THEN content ELSE steps[1].before
           regex == RegExp(escapeRegex(original), {"g"})
           matches == StringMatch(snapshot, regex)
       IN IF original = translated
            THEN ApplyPairsSnapshot(Tail(entries), content, total, steps)
          ELSE IF matches # <<>>
            THEN ApplyPairsSnapshot(Tail(entries), StringReplace(snapshot, regex, translated),
                   total + Len(matches),
                   Append(steps, [original |-> original, translated |-> translated,
                                  before |-> snapshot, matches |-> matches,
                                  after |-> StringReplace(snapshot, regex, translated)]))
          ELSE ApplyPairsSnapshot(Tail(entries), content, total,
                   Append(steps, [original |-> original, translated |-> translated,
                                  before |-> snapshot, matches |-> matches, after |-> content]))

RECURSIVE ApplyPairs(_, _, _, _)
\* the for loop of applyTranslation over the entries that are left; steps
\* records, for each pair that is not skipped, the content before, the
\* matches and the content after
ApplyPairs(entries, content, total, steps) ==
  IF entries = <<>> THEN [content |-> content, totalReplacements |-> total, steps |-> steps]
  ELSE LET original == Head(entries)[1]
           translated == Head(entries)[2]
           regex == RegExp(escapeRegex(original), {"g"})
           matches == StringMatch(content, regex)
       IN IF original = translated
            THEN ApplyPairs(Tail(entries), content, total, steps)
          ELSE IF matches # <<>>
            THEN ApplyPairs(Tail(entries), StringReplace(content, regex, translated),
                   total + Len(matches),
                   Append(steps, [original |-> original, translated |-> translated,
                                  before |-> content, matches |-> matches,
                                  after |-> StringReplace(content, regex, translated)]))
          ELSE ApplyPairs(Tail(entries), content, total,
                   Append(steps, [original |-> original, translated |-> translated,
                                  before |-> content, matches |-> matches, after |-> content]))

\* the write left out: the new content computed and counted, the file kept
ShouldWriteNever(totalReplacements) == FALSE

\* if (totalReplacements >= 0): the file written whatever the count
ShouldWriteAlways(totalReplacements) == totalReplacements >= 0

\* if (totalReplacements > 0), the condition of the write
ShouldWrite(totalReplacements) == totalReplacements > 0

\* only a path under src/ nested, any other joined to the root as it is
ResolvePathSrcOnly(opencodeDir, targetFile) ==
  PathJoinAbs(opencodeDir,
    IF StartsWithDir(targetFile, "src") THEN PathJoin(<<"packages", "opencode">>, targetFile)
    ELSE targetFile)

\* the concrete path of a target file
ResolvePath(opencodeDir, targetFile) ==
  LET relativePath ==
        IF StartsWithDir(targetFile, "src") THEN PathJoin(<<"packages", "opencode">>, targetFile)
        ELSE IF ~StartsWithDir(targetFile, "packages")
          THEN PathJoin(<<"packages", "opencode">>, targetFile)
        ELSE targetFile
  IN PathJoinAbs(opencodeDir, relativePath)

\* what one call of applyTranslation does: the value it returns (or that it
\* threw), the disk it leaves, the files it checked, read and wrote, and the
\* pairs it went through
Outcome(threw, result, disk, checked, reads, writes, entries, loop) ==
  [threw |-> threw, result |-> result, disk |-> disk, checked |-> checked,
   reads |-> reads, writes |-> writes, entries |-> entries,
   steps |-> loop.steps, totalReplacements |-> loop.totalReplacements]

NoLoop == [content |-> <<>>, totalReplacements |-> 0, steps |-> <<>>]

\* stands for the result of a call that threw, or that was not made
NoResult == [file |-> Undefined, replacements |-> 0, skipped |-> FALSE]

\* a result that carries a reason without the skipped flag
SkippedResultNotFlagged(file, reason) ==
  [file |-> file, replacements |-> 0, skipped |-> FALSE, reason |-> reason]

\* the result of the two early returns
SkippedResult(file, reason) ==
  [file |-> file, replacements |-> 0, skipped |-> TRUE, reason |-> reason]

applyTranslation(disk, opencodeDir, config, relativeFilePath) ==
  LET targetFile == Or(relativeFilePath, ConfigFile(config))
      filePath == ResolvePath(opencodeDir, targetFile)
      entries == ObjectEntries(config.replacements)
      loop == ApplyPairs(entries, disk[filePath].content, 0, <<>>)
  IN IF Falsy(targetFile)
       THEN Outcome(FALSE, SkippedResult(<<"unknown">>, "No file specified"),
                    disk, <<>>, <<>>, <<>>, <<>>, NoLoop)
     ELSE IF ~existsSync(disk, filePath)
       THEN Outcome(FALSE, SkippedResult(targetFile, "File not found"),
                    disk, <<filePath>>, <<>>, <<>>, <<>>, NoLoop)
     ELSE IF ReadThrows(disk, filePath)
       THEN Outcome(TRUE, NoResult, disk, <<filePath>>, <<filePath>>, <<>>, <<>>, NoLoop)
     ELSE IF ~HasKey(config, "replacements")
       THEN Outcome(TRUE, NoResult, disk, <<filePath>>, <<filePath>>, <<>>, <<>>, NoLoop)
     ELSE IF ShouldWrite(loop.totalReplacements)
       THEN IF WriteThrows(disk, filePath)
              THEN Outcome(TRUE, NoResult, disk, <<filePath>>, <<filePath>>, <<filePath>>,
                           entries, loop)
              ELSE Outcome(FALSE, [file |-> targetFile, replacements |-> loop.totalReplacements,
                                   skipped |-> FALSE],
                           [disk EXCEPT ![filePath].content = loop.content],
                           <<filePath>>, <<filePath>>, <<filePath>>, entries, loop)
     ELSE Outcome(FALSE, [file |-> targetFile, replacements |-> loop.totalReplacements,
                          skipped |-> FALSE], disk, <<filePath>>, <<filePath>>, <<>>, entries, loop)

\* ------------------------------------------------------------------------
\* loadTranslationFile and the documents of the translations directory
\* ------------------------------------------------------------------------
\* a value JSON.parse returns: null, or an object with some of the keys of a
\* TranslationConfig (a key that is not in keys is absent)
JsonNull == [type |-> "null", keys |-> {}, file |-> Undefined, replacements |-> <<>>]

JsonObject(keys, file, replacements) ==
  [type |-> "object", keys |-> keys, file |-> file, replacements |-> replacements]

\* a TranslationConfig with a target file / without one
Document(file, replacements) == JsonObject({"file", "replacements"}, file, replacements)

DocumentNoFile(replacements) == JsonObject({"replacements"}, Undefined, replacements)

\* a file of the translations directory: absent, text JSON.parse rejects, or
\* the text of a JSON value
MissingFile == [kind |-> "missing", value |-> JsonNull]

UnparsableFile == [kind |-> "unparsable", value |-> JsonNull]

JsonFile(value) == [kind |-> "json", value |-> value]

\* JSON.parse in a try/catch that gives null: a file that cannot be parsed
\* treated like an absent one
loadTranslationFileCatch(translationsDir, relativePath) ==
  IF translationsDir[relativePath].kind \in {"missing", "unparsable"}
    THEN [threw |-> FALSE, config |-> JsonNull]
  ELSE [threw |-> FALSE, config |-> translationsDir[relativePath].value]

\* loadTranslationFile without the existsSync test: reading an absent file throws
loadTranslationFileNoCheck(translationsDir, relativePath) ==
  IF translationsDir[relativePath].kind \in {"missing", "unparsable"}
    THEN [threw |-> TRUE, config |-> JsonNull]
  ELSE [threw |-> FALSE, config |-> translationsDir[relativePath].value]

\* loadTranslationFile: null for an absent file, else JSON.parse of its text
loadTranslationFile(translationsDir, relativePath) ==
  IF translationsDir[relativePath].kind = "missing"
    THEN [threw |-> FALSE, config |-> JsonNull]
  ELSE IF translationsDir[relativePath].kind = "unparsable"
    THEN [threw |-> TRUE, config |-> JsonNull]
  ELSE [threw |-> FALSE, config |-> translationsDir[relativePath].value]

\* the content has the shape of a TranslationConfig: an object with replacements
HasDocumentShape(f) ==
  f.kind = "json" /\ f.value.type = "object" /\ "replacements" \in f.value.keys

\* ------------------------------------------------------------------------
\* Inputs
\* ------------------------------------------------------------------------
opencodeDir == <<"oc">>

FileA == <<"oc", "packages", "opencode", "src", "a.ts">>
FileB == <<"oc", "packages", "opencode", "src", "b.ts">>

\* a file of the machine that is not in the OpenCode source tree
Outside == <<"outside.ts">>

\* a target path that climbs out of packages/opencode and of the tree
ClimbingFile == <<"..", "..", "..", "outside.ts">>

DiskPaths == {FileA, FileB, Outside}

File(content, writable) == [kind |-> "file", content |-> content, writable |-> writable]

Directory == [kind |-> "dir", content |-> <<>>, writable |-> FALSE]

ContentChars == {"A", "B"}

\* contents with a character that is special in a regex
DottedContents == {<<".">>, <<"A", ".">>, <<".", "B", ".">>}

Contents == UNION {[1..n -> ContentChars] : n \in 0..MaxContentLen} \cup DottedContents

\* the replacement pairs the documents are made of
EnginePairs ==
  { <<<<"A">>, <<"B">>>>, <<<<"B">>, <<"C">>>>, <<<<"A">>, <<"A", "A">>>>,
    <<<<"A">>, <<"1">>>>, <<<<"1">>, <<"B">>>>, <<<<".">>, <<"B">>>>,
    <<<<"a">>, <<"B">>>>, <<<<"A", "A">>, <<"B">>>>, <<<<"A">>, <<"A">>>>,
    <<<<"A">>, <<"$", "&">>>>, <<<<>>, <<"B">>>> }

\* the replacements of a document: pairs with distinct keys, in declaration order
ReplacementSeqs(pairs, max) ==
  {r \in UNION {[1..n -> pairs] : n \in 0..max} :
     \A i, j \in 1..Len(r) : i # j => r[i][1] # r[j][1]}

SrcA == <<"src", "a.ts">>

\* calls on an existing, writable file: every content against every document
StringInputs ==
  {[disk |-> [p \in DiskPaths |-> IF p = FileA THEN File(c, TRUE) ELSE NoEntry],
    config |-> Document(SrcA, r), relativeFilePath |-> Undefined] :
     c \in Contents, r \in ReplacementSeqs(EnginePairs, MaxPairs)}

PathConfigs ==
  {Document(f, r) : f \in {<<>>, SrcA, <<"a.ts">>, <<"packages", "opencode", "src", "a.ts">>,
                           <<"src", "gone.ts">>, ClimbingFile},
                    r \in {<<>>, << <<<<"A">>, <<"B">>>> >>}}
    \cup {DocumentNoFile(<< <<<<"A">>, <<"B">>>> >>), JsonObject({"file"}, SrcA, <<>>),
          JsonObject({}, Undefined, <<>>)}

\* calls that differ in the target path, the override and the state of the file
PathInputs ==
  {[disk |-> [p \in DiskPaths |-> IF p = FileA THEN e ELSE File(<<"A">>, TRUE)],
    config |-> cfg, relativeFilePath |-> o] :
     e \in {NoEntry, Directory, File(<<"A", "B">>, TRUE), File(<<"A", "B">>, FALSE)},
     cfg \in PathConfigs,
     o \in {Undefined, <<>>, <<"src", "b.ts">>}}

EngineInputs == StringInputs \cup PathInputs

\* ------------------------------------------------------------------------
\* State
\* ------------------------------------------------------------------------
VARIABLES
  disk,          \* the target tree: concrete path -> entry
  translations,  \* the translations directory: document reference -> file
  modules,       \* moduleConfig.modules: category -> references, or Undefined
  noBuild,       \* --no-build was given
  arg,           \* the arguments of the direct calls of applyTranslation
  pc,            \* where the run is
  cat,           \* position in the category order
  idx,           \* position in the files of the category
  stats,         \* filesProcessed, filesSkipped, totalReplacements
  calls,         \* loop iterations / direct calls so far
  last,          \* the last iteration or call: what was loaded, what applyTranslation did
  prev,          \* the one before it
  configJson,    \* the file translations/config.json: its kind and its version key
  currentVersion,\* what getOpenCodeVersion returns for the tree
  versionLog,    \* the line main logged after comparing the versions
  tree0,         \* the target tree as the run found it
  cli            \* the invocation: script path, arguments, environment, the flow
                 \* main took and what it did so far

vars == <<disk, translations, modules, noBuild, arg, pc, cat, idx, stats, calls, last, prev,
          configJson, currentVersion, versionLog, tree0, cli>>

\* main of localize.ts called on a located tree: the localization flow
PlainRun ==
  [execPath |-> <<>>, args |-> {}, env |-> Undefined, exists |-> {}, flow |-> "localize",
   located |-> opencodeDir, loads |-> 0, events |-> <<>>, latest |-> "", promise |-> "none"]

\* the manifest read once for its version and once more for its modules
ManifestLoadedAgain(c) == [c EXCEPT !.loads = @ + 2]

\* a call of loadModuleConfig
ManifestLoaded(c) == [c EXCEPT !.loads = @ + 1]

\* a step of the flow is started
Started(c, what) == [c EXCEPT !.events = Append(@, what)]

NoOutcome == Outcome(FALSE, NoResult, <<>>, <<>>, <<>>, <<>>, <<>>, NoLoop)

NoStep == [file |-> "", load |-> "none", out |-> NoOutcome, before |-> <<>>]

ZeroStats == [filesProcessed |-> 0, filesSkipped |-> 0, totalReplacements |-> 0]

\* ------------------------------------------------------------------------
\* Direct calls of applyTranslation
\* ------------------------------------------------------------------------
InitEngine ==
  \E inp \in EngineInputs :
    /\ disk = inp.disk
    /\ arg = [config |-> inp.config, relativeFilePath |-> inp.relativeFilePath]
    /\ translations = <<>>
    /\ modules = <<>>
    /\ noBuild = TRUE
    /\ pc = "engine"
    /\ cat = 0
    /\ idx = 0
    /\ stats = ZeroStats
    /\ calls = 0
    /\ last = NoStep
    /\ prev = NoStep
    /\ configJson = [kind |-> "json", version |-> "1.2.10"]
    /\ currentVersion = "1.2.10"
    /\ versionLog = "none"
    /\ tree0 = inp.disk
    /\ cli = PlainRun

\* applyTranslation(opencodeDir, config, relativeFilePath)
ApplyCall ==
  /\ pc = "engine"
  /\ calls < MaxCalls
  /\ LET out == applyTranslation(disk, opencodeDir, arg.config, arg.relativeFilePath) IN
       /\ last' = [file |-> "", load |-> "value", out |-> out, before |-> disk]
       /\ disk' = out.disk
       /\ pc' = IF out.threw THEN "crashed" ELSE pc
  /\ prev' = last
  /\ calls' = calls + 1
  /\ UNCHANGED <<translations, modules, noBuild, arg, cat, idx, stats,
                 configJson, currentVersion, versionLog, tree0, cli>>

NextEngine == ApplyCall

SpecEngine == InitEngine /\ [][NextEngine]_vars

\* ------------------------------------------------------------------------
\* The batch run of main
\* ------------------------------------------------------------------------
\* the categories taken in the alphabetical order of their names
CategoryOrderAlphabetical == <<"common", "components", "dialogs", "root", "routes">>

\* the order of the five if (modules.x) processModule(x, modules.x) of main
CategoryOrder == <<"root", "dialogs", "components", "routes", "common">>

Categories == {CategoryOrder[i] : i \in 1..Len(CategoryOrder)}

Refs == {"d1.json", "d2.json", "d3.json"}

SrcB == <<"src", "b.ts">>

AtoB == << <<<<"A">>, <<"B">>>> >>

BtoC == << <<<<"B">>, <<"C">>>> >>

\* the files a document reference may stand for
BatchFiles ==
  {MissingFile, UnparsableFile, JsonFile(JsonNull), JsonFile(JsonObject({}, Undefined, <<>>)),
   JsonFile(JsonObject({"file"}, SrcA, <<>>)),
   JsonFile(Document(SrcA, AtoB)), JsonFile(Document(SrcB, BtoC))}

BatchTranslations ==
  {[r \in Refs |-> IF r = "d1.json" THEN f1 ELSE IF r = "d2.json" THEN f2 ELSE f3] :
     f1 \in BatchFiles, f2 \in BatchFiles,
     f3 \in {MissingFile, JsonFile(Document(SrcA, BtoC)), JsonFile(Document(SrcB, BtoC)),
             JsonFile(Document(<<"packages", "opencode", "src", "a.ts">>, BtoC))}}
    \cup {[r \in Refs |-> JsonFile(Document(SrcA, BtoC))]}

BatchDisks ==
  {[p \in DiskPaths |-> IF p = FileA THEN a ELSE IF p = FileB THEN b ELSE NoEntry] :
     a \in {NoEntry, File(<<"A", "A", "A">>, TRUE), File(<<"A", "B">>, FALSE)},
     b \in {Directory, File(<<"B", ".">>, TRUE)}}

\* moduleConfig.modules with the given categories, the others absent
Modules(present) ==
  [c \in Categories |-> IF c \in DOMAIN present THEN present[c] ELSE Undefined]

BatchModules ==
  { Modules([root |-> <<"d1.json", "d2.json">>, dialogs |-> <<"d3.json">>]),
    Modules([routes |-> <<"d3.json", "d1.json">>, components |-> <<>>,
             common |-> <<"d2.json">>]),
    Modules([dialogs |-> <<"d2.json", "d1.json", "d3.json">>]),
    Modules([root |-> <<"d1.json">>]) }

\* translations/config.json: absent, not JSON, or a manifest with its version
ConfigFiles ==
  {[kind |-> "missing", version |-> ""], [kind |-> "unparsable", version |-> ""],
   [kind |-> "json", version |-> "1.2.10"]}

\* the versions getOpenCodeVersion may return, "unknown" when the tree's
\* package.json is absent or cannot be parsed
Versions == {"1.2.10", "1.2.11", "unknown"}

\* if (!fs.existsSync(configPath)) left out: an absent manifest read as if
\* it were there
loadModuleConfigNoCheck(file, m) ==
  IF file.kind = "unparsable"
    THEN [threw |-> TRUE, version |-> "", modules |-> <<>>]
    ELSE [threw |-> FALSE, version |-> file.version, modules |-> m]

\* loadModuleConfig: throws when config.json is absent, and when JSON.parse
\* throws; otherwise the manifest
loadModuleConfig(file, m) ==
  IF file.kind # "json"
    THEN [threw |-> TRUE, version |-> "", modules |-> <<>>]
    ELSE [threw |-> FALSE, version |-> file.version, modules |-> m]

\* a version mismatch that ends the run
VersionCheckStrict(current, version) ==
  IF current # version
    THEN [log |-> "mismatch", next |-> "exit1"]
    ELSE [log |-> "match", next |-> "apply"]

\* if (currentVersion !== moduleConfig.version): one of two log lines, and
\* main goes on to the translations after either
VersionCheck(current, version) ==
  IF current # version
    THEN [log |-> "mismatch", next |-> "apply"]
    ELSE [log |-> "match", next |-> "apply"]

Init ==
  /\ disk \in BatchDisks
  /\ translations \in BatchTranslations
  /\ modules \in BatchModules
  /\ noBuild \in BOOLEAN
  /\ configJson \in ConfigFiles
  /\ currentVersion \in Versions
  /\ configJson.kind # "json"
       => /\ noBuild
          /\ currentVersion = "1.2.10"
          /\ \A r \in Refs : translations[r] = JsonFile(Document(SrcA, BtoC))
  /\ versionLog = "none"
  /\ tree0 = disk
  /\ cli = PlainRun
  /\ arg = [config |-> JsonNull, relativeFilePath |-> Undefined]
  /\ pc = "start"
  /\ cat = 0
  /\ idx = 0
  /\ stats = ZeroStats
  /\ calls = 0
  /\ last = NoStep
  /\ prev = NoStep

\* main up to the first processModule: the manifest is loaded, the versions
\* are compared and the statistics start at zero
Begin ==
  /\ pc = "start"
  /\ LET moduleConfig == loadModuleConfig(configJson, modules)
         check == VersionCheck(currentVersion, moduleConfig.version)
     IN IF moduleConfig.threw
          THEN /\ pc' = "crashed"
               /\ versionLog' = versionLog
          ELSE /\ pc' = check.next
               /\ versionLog' = check.log
  /\ cat' = 1
  /\ idx' = 1
  /\ stats' = ZeroStats
  /\ cli' = IF loadModuleConfig(configJson, modules).threw
             THEN ManifestLoaded(cli)
             ELSE Started(ManifestLoaded(cli), "apply")
  /\ UNCHANGED <<disk, translations, modules, noBuild, arg, calls, last, prev,
                 configJson, currentVersion, tree0>>

\* the category main is at is present (if (modules.x)) and has a file left
InModule ==
  /\ cat <= Len(CategoryOrder)
  /\ modules[CategoryOrder[cat]] # Undefined
  /\ idx <= Len(modules[CategoryOrder[cat]])

\* no else branch: a result without matches counted nowhere
ClassifyMatchesOnly(st, result) ==
  IF result.skipped THEN [st EXCEPT !.filesSkipped = @ + 1]
  ELSE IF result.replacements > 0
    THEN [st EXCEPT !.filesProcessed = @ + 1, !.totalReplacements = @ + result.replacements]
  ELSE st

\* stats.totalReplacements = result.replacements: the total of the last
\* document instead of the sum
ClassifyLastCount(st, result) ==
  IF result.skipped THEN [st EXCEPT !.filesSkipped = @ + 1]
  ELSE IF result.replacements > 0
    THEN [st EXCEPT !.filesProcessed = @ + 1, !.totalReplacements = result.replacements]
  ELSE [st EXCEPT !.filesProcessed = @ + 1]

\* the statistics after an ApplicationResult
Classify(st, result) ==
  IF result.skipped THEN [st EXCEPT !.filesSkipped = @ + 1]
  ELSE IF result.replacements > 0
    THEN [st EXCEPT !.filesProcessed = @ + 1, !.totalReplacements = @ + result.replacements]
  ELSE [st EXCEPT !.filesProcessed = @ + 1]

\* one iteration of the loop of processModule
ProcessFile ==
  /\ pc = "apply"
  /\ InModule
  /\ LET file == modules[CategoryOrder[cat]][idx]
         loaded == loadTranslationFile(translations, file)
         out == applyTranslation(disk, opencodeDir, loaded.config, Undefined)
     IN IF loaded.threw
          THEN /\ pc' = "crashed"
               /\ last' = [file |-> file, load |-> "threw", out |-> NoOutcome, before |-> disk]
               /\ UNCHANGED <<disk, stats>>
        ELSE IF loaded.config.type = "null"
          THEN /\ pc' = pc
               /\ stats' = [stats EXCEPT !.filesSkipped = @ + 1]
               /\ last' = [file |-> file, load |-> "null", out |-> NoOutcome, before |-> disk]
               /\ UNCHANGED disk
        ELSE /\ last' = [file |-> file, load |-> "value", out |-> out, before |-> disk]
             /\ disk' = out.disk
             /\ pc' = IF out.threw THEN "crashed" ELSE pc
             /\ stats' = IF out.threw THEN stats ELSE Classify(stats, out.result)
  /\ prev' = last
  /\ calls' = calls + 1
  /\ idx' = idx + 1
  /\ UNCHANGED <<translations, modules, noBuild, arg, cat,
                 configJson, currentVersion, versionLog, tree0, cli>>

\* the category is absent or its loop is over: on to the next if
EndModule ==
  /\ pc = "apply"
  /\ cat <= Len(CategoryOrder)
  /\ ~InModule
  /\ cat' = cat + 1
  /\ idx' = 1
  /\ UNCHANGED <<disk, translations, modules, noBuild, arg, pc, stats, calls, last, prev,
                 configJson, currentVersion, versionLog, tree0, cli>>

\* the build started whatever the arguments
AfterSummaryAlwaysBuild(noBuildArg) == "building"

\* if (!noBuild) await buildOpenCode(opencodeDir)
AfterSummary(noBuildArg) == IF noBuildArg THEN "done" ELSE "building"

\* the summary, then the build unless --no-build
Summary ==
  /\ pc = "apply"
  /\ cat > Len(CategoryOrder)
  /\ pc' = AfterSummary(noBuild /\ cli.flow # "install")
  /\ cli' = IF AfterSummary(noBuild /\ cli.flow # "install") = "building"
             THEN Started(cli, "build") ELSE cli
  /\ UNCHANGED <<disk, translations, modules, noBuild, arg, cat, idx, stats, calls, last, prev,
                 configJson, currentVersion, versionLog, tree0>>

\* the build process closes with an exit code
BuildClose ==
  /\ pc = "building"
  /\ \E code \in {0, 1} : pc' = IF code = 0 THEN "done" ELSE "exit1"
  /\ UNCHANGED <<disk, translations, modules, noBuild, arg, cat, idx, stats, calls, last, prev,
                 configJson, currentVersion, versionLog, tree0, cli>>

Next == Begin \/ ProcessFile \/ EndModule \/ Summary \/ BuildClose

Spec == Init /\ [][Next]_vars

\* ------------------------------------------------------------------------
\* getOpenCodeDir and the command line of main
\* ------------------------------------------------------------------------
\* the null getOpenCodeDir returns
Null == <<"<null>">>

\* getOpenCodeDir was not called
NotCalled == <<"<not called>">>

HomeDir == <<"home", "u">>

DefaultDir == HomeDir \o <<".opencode-cn", "opencode">>

RootPackage == <<"root", "opencode", "packages", "opencode">>

HomePackage == HomeDir \o <<"opencode", "packages", "opencode">>

DotPackage == HomeDir \o <<".opencode", "packages", "opencode">>

\* the fifth path of the README, which getOpenCodeDir does not try
ReadmeDotPackage == HomeDir \o <<".opencode", "opencode", "packages", "opencode">>

Dirname(p) == SubSeq(p, 1, Len(p) - 1)

\* the loop over possiblePaths: the tree of the first path that exists
FirstExisting(paths, exists) ==
  IF \E i \in 1..Len(paths) : paths[i] \in exists
    THEN Dirname(Dirname(paths[CHOOSE i \in 1..Len(paths) :
                 paths[i] \in exists /\ \A j \in 1..(i - 1) : paths[j] \notin exists]))
    ELSE Null

\* getOpenCodeDir, env being process.env.OPENCODE_SOURCE_DIR and exists the
\* directories fs.existsSync is true for
getOpenCodeDir(env, exists) ==
  IF ~Falsy(env) THEN env
  ELSE IF DefaultDir \in exists THEN DefaultDir
  ELSE FirstExisting(<<RootPackage, HomePackage, DotPackage>>, exists)

\* a path is a sequence of pieces of text, "opencode" always a piece of its own
EndsWith(path, suffix) ==
  Len(path) >= Len(suffix) /\ SubSeq(path, Len(path) - Len(suffix) + 1, Len(path)) = suffix

Includes(path, frag) ==
  \E i \in 1..(Len(path) - Len(frag) + 1) : SubSeq(path, i, i + Len(frag) - 1) = frag

\* isRunCommand of main
isRunCommand(execPath) ==
  \/ EndsWith(execPath, <<"opencode">>)
  \/ EndsWith(execPath, <<"opencode", ".exe">>)
  \/ EndsWith(execPath, <<"opencode", ".cmd">>)
  \/ (Includes(execPath, <<"opencode">>)
        /\ ~Includes(execPath, <<"opencode", "-cn-localize">>))

\* process.argv[1] || ""
ExecPaths ==
  { <<"/usr/bin/", "opencode">>,
    <<"C:/npm/", "opencode", ".cmd">>,
    <<"/usr/bin/", "opencode", "-cn-localize">>,
    <<"/home/u/", "opencode", "-zh/dist/localize.js">>,
    <<"/opt/tool/dist/localize.js">>,
    <<>> }

Flags == {"--install", "--upgrade", "--run", "--no-build"}

\* ------------------------------------------------------------------------
\* main with its commands: launch, --install, --upgrade, --run, localization
\* ------------------------------------------------------------------------
\* the tree a clone gives, and no tree at all
ClonedTree ==
  [p \in DiskPaths |-> IF p = FileA THEN File(<<"A", "A", "A">>, TRUE)
                       ELSE IF p = FileB THEN File(<<"B", ".">>, TRUE) ELSE NoEntry]

EmptyTree == [p \in DiskPaths |-> NoEntry]

CliModules == Modules([root |-> <<"d1.json", "d2.json">>, dialogs |-> <<"d3.json">>])

CliTranslations ==
  {[r \in Refs |-> IF r = "d1.json" THEN JsonFile(Document(SrcA, AtoB))
                   ELSE IF r = "d2.json" THEN f
                   ELSE JsonFile(Document(<<"packages", "opencode", "src", "a.ts">>, BtoC))] :
     f \in {MissingFile, UnparsableFile, JsonFile(Document(SrcB, BtoC))}}

CandidateDirs == {DefaultDir, RootPackage, HomePackage, DotPackage, ReadmeDotPackage}

\* invocations that differ in what can be located, and invocations that
\* differ in the script path and the arguments
Invocations ==
  {[execPath |-> <<"/opt/tool/dist/localize.js">>, args |-> a, env |-> e, exists |-> x] :
     a \in {{}, {"--run"}}, e \in {Undefined, <<>>, <<"custom">>}, x \in SUBSET CandidateDirs}
    \cup {[execPath |-> ep, args |-> a, env |-> Undefined, exists |-> x] :
            ep \in ExecPaths, a \in SUBSET Flags, x \in {{}, {DefaultDir}}}

InitCli ==
  /\ \E inv \in Invocations :
       /\ cli = [execPath |-> inv.execPath, args |-> inv.args, env |-> inv.env,
                 exists |-> inv.exists, flow |-> "none", located |-> NotCalled,
                 loads |-> 0, events |-> <<>>, latest |-> "", promise |-> "none"]
       /\ noBuild = ("--no-build" \in inv.args)
       /\ disk = IF getOpenCodeDir(inv.env, inv.exists) = Null THEN EmptyTree ELSE ClonedTree
  /\ translations \in CliTranslations
  /\ configJson \in {[kind |-> "missing", version |-> ""], [kind |-> "json", version |-> "1.2.10"]}
  /\ currentVersion \in {"1.2.10", "1.2.11"}
  /\ modules = CliModules
  /\ tree0 = disk
  /\ arg = [config |-> JsonNull, relativeFilePath |-> Undefined]
  /\ pc = "main"
  /\ cat = 0
  /\ idx = 0
  /\ stats = ZeroStats
  /\ calls = 0
  /\ last = NoStep
  /\ prev = NoStep
  /\ versionLog = "none"

\* main up to the command it chooses
Dispatch ==
  /\ pc = "main"
  /\ LET dir == getOpenCodeDir(cli.env, cli.exists)
         byName == isRunCommand(cli.execPath)
         called == byName \/ "--install" \notin cli.args
         c == [cli EXCEPT !.located = IF called THEN dir ELSE NotCalled]
     IN IF byName /\ dir # Null
          THEN pc' = "launched" /\ cli' = [c EXCEPT !.flow = "launch"]
        ELSE IF "--install" \in cli.args
          THEN pc' = "preflight" /\ cli' = [c EXCEPT !.flow = "install"]
        ELSE IF "--upgrade" \in cli.args
          THEN IF dir = Null
                 THEN pc' = "exit1" /\ cli' = [c EXCEPT !.flow = "upgrade"]
                 ELSE /\ pc' = "fetching"
                      /\ cli' = Started([c EXCEPT !.flow = "upgrade", !.promise = "pending"],
                                         "fetch")
        ELSE IF "--run" \in cli.args
          THEN IF dir = Null
                 THEN pc' = "exit1" /\ cli' = [c EXCEPT !.flow = "run"]
                 ELSE pc' = "launched" /\ cli' = [c EXCEPT !.flow = "launch"]
        ELSE IF dir = Null
          THEN /\ \E code \in {0, 1} : pc' = IF code = 0 THEN "exit0" ELSE "exit1"
               /\ cli' = [c EXCEPT !.flow = "localize"]
        ELSE pc' = "start" /\ cli' = [c EXCEPT !.flow = "localize"]
  /\ UNCHANGED <<disk, translations, modules, noBuild, arg, cat, idx, stats, calls, last, prev,
                 configJson, currentVersion, versionLog, tree0>>

\* installOpenCode up to the spawn of git clone: git, and bun or its
\* installation, may be missing
Preflight ==
  /\ pc = "preflight"
  /\ \E ok \in BOOLEAN :
       IF ok THEN pc' = "cloning" /\ cli' = Started([cli EXCEPT !.promise = "pending"], "clone")
       ELSE pc' = "exit1" /\ cli' = [cli EXCEPT !.promise = "rejected"]
  /\ UNCHANGED <<disk, translations, modules, noBuild, arg, cat, idx, stats, calls, last, prev,
                 configJson, currentVersion, versionLog, tree0>>

\* the dependencies installed whatever the exit code of the clone
AfterCloneAnyCode(code) == "deps"

\* cloneProcess.on("close"): reject unless the code is 0
AfterClone(code) == IF code # 0 THEN "exit1" ELSE "deps"

\* git clone closes; with code 0 the tree is there and bun install is run
CloneClose ==
  /\ pc = "cloning"
  /\ \E code \in {0, 1} :
       /\ pc' = AfterClone(code)
       /\ LET closed == Started(cli, IF code = 0 THEN "clone ok" ELSE "clone failed") IN
            cli' = IF AfterClone(code) = "deps" THEN Started(closed, "deps")
                   ELSE [closed EXCEPT !.promise = "rejected"]
       /\ disk' = IF code = 0 THEN ClonedTree ELSE disk
       /\ tree0' = IF code = 0 THEN ClonedTree ELSE tree0
  /\ UNCHANGED <<translations, modules, noBuild, arg, cat, idx, stats, calls, last, prev,
                 configJson, currentVersion, versionLog>>

\* bun install --ignore-scripts: execSync throws on failure
DepsInstall ==
  /\ pc = "deps"
  /\ \E ok \in BOOLEAN :
       IF ok THEN pc' = "installed" /\ cli' = Started(cli, "deps ok")
       ELSE pc' = "exit1" /\ cli' = Started([cli EXCEPT !.promise = "rejected"], "deps failed")
  /\ UNCHANGED <<disk, translations, modules, noBuild, arg, cat, idx, stats, calls, last, prev,
                 configJson, currentVersion, versionLog, tree0>>

\* the platform package (a failure is logged and passed over), then the
\* version check of the installer, which loads the manifest outside of any
\* try: an exception there is uncaught; otherwise the promise resolves and
\* main goes on to the translations
InstallerVersionCheck ==
  /\ pc = "installed"
  /\ IF loadModuleConfig(configJson, modules).threw
       THEN pc' = "uncaught" /\ cli' = ManifestLoaded(cli)
       ELSE pc' = "start" /\ cli' = [ManifestLoaded(cli) EXCEPT !.promise = "resolved"]
  /\ UNCHANGED <<disk, translations, modules, noBuild, arg, cat, idx, stats, calls, last, prev,
                 configJson, currentVersion, versionLog, tree0>>

\* the catch of the --install branch: an exception of the translations
\* ends the process with exit code 1
CatchInstallError ==
  /\ pc = "crashed"
  /\ cli.flow = "install"
  /\ pc' = "exit1"
  /\ UNCHANGED <<disk, translations, modules, noBuild, arg, cat, idx, stats, calls, last, prev,
                 configJson, currentVersion, versionLog, tree0, cli>>

\* the reset done whatever the versions
NeedsResetAlways(current, latest) == TRUE

\* the reset is skipped only when git describe gave the current version
NeedsReset(current, latest) == latest = "" \/ current # latest

\* git fetch origin closes
FetchClose ==
  /\ pc = "fetching"
  /\ \E code \in {0, 1} :
       IF code # 0
         THEN pc' = "exit1" /\ cli' = Started([cli EXCEPT !.promise = "rejected"], "fetch failed")
         ELSE pc' = "versions" /\ cli' = Started(cli, "fetch ok")
  /\ UNCHANGED <<disk, translations, modules, noBuild, arg, cat, idx, stats, calls, last, prev,
                 configJson, currentVersion, versionLog, tree0>>

\* the rest of the close handler of the fetch: the manifest is loaded
\* (an exception is uncaught), git describe gives the latest tag or fails
\* (""), and the reset is spawned unless the versions are equal
UpgradeVersionCheck ==
  /\ pc = "versions"
  /\ IF loadModuleConfig(configJson, modules).threw
       THEN pc' = "uncaught" /\ cli' = ManifestLoaded(cli)
       ELSE \E latest \in {"", "1.2.10", "1.2.11"} :
              IF NeedsReset(currentVersion, latest)
                THEN /\ pc' = "resetting"
                     /\ cli' = Started([ManifestLoaded(cli) EXCEPT !.latest = latest], "reset")
                ELSE /\ pc' = "upgraded"
                     /\ cli' = [ManifestLoaded(cli) EXCEPT !.latest = latest,
                                                          !.promise = "resolved"]
  /\ UNCHANGED <<disk, translations, modules, noBuild, arg, cat, idx, stats, calls, last, prev,
                 configJson, currentVersion, versionLog, tree0>>

\* git reset --hard origin/main closes
ResetClose ==
  /\ pc = "resetting"
  /\ \E code \in {0, 1} :
       IF code # 0
         THEN pc' = "exit1" /\ cli' = Started([cli EXCEPT !.promise = "rejected"], "reset failed")
         ELSE pc' = "installing" /\ cli' = Started(Started(cli, "reset ok"), "install")
  /\ UNCHANGED <<disk, translations, modules, noBuild, arg, cat, idx, stats, calls, last, prev,
                 configJson, currentVersion, versionLog, tree0>>

\* bun install closes
UpgradeInstallClose ==
  /\ pc = "installing"
  /\ \E code \in {0, 1} :
       IF code # 0
         THEN /\ pc' = "exit1"
              /\ cli' = Started([cli EXCEPT !.promise = "rejected"], "install failed")
         ELSE /\ pc' = "upgraded"
              /\ cli' = Started([cli EXCEPT !.promise = "resolved"], "install ok")
  /\ UNCHANGED <<disk, translations, modules, noBuild, arg, cat, idx, stats, calls, last, prev,
                 configJson, currentVersion, versionLog, tree0>>

NextCli ==
  \/ Dispatch
  \/ Preflight \/ CloneClose \/ DepsInstall \/ InstallerVersionCheck \/ CatchInstallError
  \/ FetchClose \/ UpgradeVersionCheck \/ ResetClose \/ UpgradeInstallClose
  \/ Begin \/ ProcessFile \/ EndModule \/ Summary \/ BuildClose

SpecCli == InitCli /\ [][NextCli]_vars

\* ------------------------------------------------------------------------
\* The batch as a function of its inputs
\* ------------------------------------------------------------------------
\* one iteration of the loop of processModule on a run [disk, stats, threw];
\* nothing happens after an exception
processFile(docs, run, file) ==
  LET loaded == loadTranslationFile(docs, file)
      out == applyTranslation(run.disk, opencodeDir, loaded.config, Undefined)
  IN IF run.threw THEN run
     ELSE IF loaded.threw THEN [run EXCEPT !.threw = TRUE]
     ELSE IF loaded.config.type = "null"
       THEN [run EXCEPT !.stats = [@ EXCEPT !.filesSkipped = @ + 1]]
     ELSE IF out.threw THEN [run EXCEPT !.threw = TRUE]
     ELSE [disk |-> out.disk, stats |-> Classify(run.stats, out.result), threw |-> FALSE]

RECURSIVE processFiles(_, _, _)
\* the iterations for the document references refs, one after the other
processFiles(docs, run, refs) ==
  IF refs = <<>> THEN run
  ELSE processFiles(docs, processFile(docs, run, Head(refs)), Tail(refs))

\* ------------------------------------------------------------------------
\* Properties of the batch run (Spec)
\* ------------------------------------------------------------------------
RECURSIVE CountRefs(_, _)
\* the number of document references in the first n categories of the order
CountRefs(m, n) ==
  IF n = 0 THEN 0
  ELSE CountRefs(m, n - 1)
         + (IF m[CategoryOrder[n]] = Undefined THEN 0 ELSE Len(m[CategoryOrder[n]]))

TotalRefs == CountRefs(modules, Len(CategoryOrder))

\* C5 as stated: an iteration that does not throw increments exactly one
\* counter by one, filesSkipped when the document file is missing or the
\* result is skipped, otherwise filesProcessed, and adds the result's
\* replacement count to totalReplacements
C5_OneCounterPerReference ==
  [][(pc = "apply" /\ calls' = calls + 1 /\ pc' = "apply")
       => IF \/ translations[last'.file].kind = "missing"
             \/ (last'.load = "value" /\ last'.out.result.skipped)
            THEN stats' = [stats EXCEPT !.filesSkipped = @ + 1]
            ELSE stats' = [stats EXCEPT !.filesProcessed = @ + 1,
                                        !.totalReplacements = @ + last'.out.result.replacements]]_vars

\* C6 as stated: no run ends before every document reference was attempted
C6_EveryReferenceAttempted ==
  (configJson.kind = "json" /\ pc \in {"crashed", "building", "done", "exit1"})
    => calls = TotalRefs

\* C6 amended: a missing document or a skipped result never ends the run; a
\* run that loaded its manifest ends before every reference was attempted
\* only at a reference whose document cannot be parsed or whose
\* applyTranslation threw, and a run that reaches the summary attempted
\* every reference
C6_OnlyAnExceptionStopsTheBatch ==
  /\ pc \in {"building", "done", "exit1"} => calls = TotalRefs
  /\ (configJson.kind = "json" /\ pc = "crashed")
       => \/ translations[last.file].kind = "unparsable"
          \/ (last.load = "value" /\ last.out.threw)
  /\ (pc = "apply" /\ cat > Len(CategoryOrder)) => calls = TotalRefs

\* a run went past a missing document and a skipped result to the summary
C6_Witness ==
  /\ pc = "done"
  /\ calls = TotalRefs
  /\ calls >= 3
  /\ stats.filesSkipped >= 2
  /\ \E r \in Refs : translations[r].kind = "missing"
  /\ last.load = "value" /\ ~last.out.threw

\* C7 as stated: a document that exists but has not the shape of a
\* TranslationDocument stops the run with an error, and is not counted
C7_MalformedDocumentAborts ==
  (pc \in {"apply", "crashed"} /\ calls >= 1
     /\ translations[last.file].kind # "missing"
     /\ ~HasDocumentShape(translations[last.file]))
    => pc = "crashed"

\* ------------------------------------------------------------------------
\* Properties of applyTranslation (SpecEngine)
\* ------------------------------------------------------------------------
\* frag occurs in s at position i, character for character
OccursAt(frag, s, i) ==
  i + Len(frag) - 1 <= Len(s) /\ SubSeq(s, i, i + Len(frag) - 1) = frag

Occurs(frag, s) == \E i \in 1..(Len(s) + 1) : OccursAt(frag, s, i)

IsPrefix(a, b) == Len(a) <= Len(b) /\ SubSeq(b, 1, Len(a)) = a

\* the step called applyTranslation and the call returned
Returned(step) == step.load = "value" /\ ~step.out.threw

\* the call returned a result that is not skipped
Applied(step) == Returned(step) /\ ~step.out.result.skipped

\* the file the step worked on
FileOf(step) == step.out.checked[1]

\* the pairs of the document that are not skipped by the loop
Effective(pairs) == {pairs[i] : i \in {j \in 1..Len(pairs) : pairs[j][1] # pairs[j][2]}}

\* no translated value is a prefix of, equal to, or contains another pair's original
Proviso(pairs) ==
  \A i, j \in 1..Len(pairs) :
    i # j => ~IsPrefix(pairs[i][2], pairs[j][1]) /\ ~Occurs(pairs[j][1], pairs[i][2])

\* C1 as stated: a second application of a document whose pairs satisfy the
\* proviso reports 0 replacements and leaves the content unchanged
C1_IdempotentUnderProviso ==
  (calls >= 2 /\ Applied(prev) /\ Applied(last) /\ Proviso(arg.config.replacements))
    => last.out.result.replacements = 0 /\ disk = last.before

\* C1 amended: a second application reports 0 replacements exactly when no
\* original of a pair with original # translated occurs in the content the
\* first application left, and it then leaves the file unchanged and unwritten
C1_IdempotentWhenNoOriginalLeft ==
  (calls >= 2 /\ Applied(prev) /\ Applied(last))
    => LET left == last.before[FileOf(last)].content
           clean == \A p \in Effective(arg.config.replacements) : ~Occurs(p[1], left)
       IN /\ clean <=> last.out.result.replacements = 0
          /\ clean => disk = last.before /\ last.out.writes = <<>>

C1_Witness ==
  /\ calls >= 2 /\ Applied(prev) /\ Applied(last)
  /\ prev.out.result.replacements > 0
  /\ last.out.result.replacements = 0
  /\ disk = last.before

RECURSIVE ReplaceAllLiteral(_, _, _, _)
\* s from position i on with every occurrence of original, found by comparing
\* characters from left to right, replaced by what translated stands for
ReplaceAllLiteral(s, i, original, translated) ==
  IF i > Len(s) + 1 THEN <<>>
  ELSE IF OccursAt(original, s, i)
    THEN GetSubstitution(s, [index |-> i, end |-> i + Len(original)], translated)
           \o (IF original = <<>>
                 THEN (IF i <= Len(s) THEN <<s[i]>> ELSE <<>>)
                        \o ReplaceAllLiteral(s, i + 1, original, translated)
                 ELSE ReplaceAllLiteral(s, i + Len(original), original, translated))
  ELSE (IF i <= Len(s) THEN <<s[i]>> ELSE <<>>)
         \o ReplaceAllLiteral(s, i + 1, original, translated)

RECURSIVE FoldReplace(_, _)
\* the left fold of the replace-all over the pairs
FoldReplace(pairs, content) ==
  IF pairs = <<>> THEN content
  ELSE FoldReplace(Tail(pairs),
         IF Head(pairs)[1] = Head(pairs)[2] THEN content
         ELSE ReplaceAllLiteral(content, 1, Head(pairs)[1], Head(pairs)[2]))

\* C2: the content applyTranslation leaves is the left fold of the literal
\* replace-all over the pairs in application order, each pair working on the
\* content the previous one produced
C2_ChainedReplacement ==
  Applied(last)
    => disk[FileOf(last)].content
         = FoldReplace(last.out.entries, last.before[FileOf(last)].content)

\* pairs [(A,B),(B,C)] applied to content "A" give "C"
C2_Witness ==
  /\ Applied(last)
  /\ last.out.entries = << <<<<"A">>, <<"B">>>>, <<<<"B">>, <<"C">>>> >>
  /\ last.before[FileA].content = <<"A">>
  /\ disk[FileA].content = <<"C">>

\* C3 as stated: the pairs are applied in the order the document declares them
C3_DeclaredOrder ==
  Applied(last) => last.out.entries = arg.config.replacements

\* C4: whatever a pair matches is its original fragment, character for
\* character, and a pair whose original does not occur changes nothing
C4_LiteralMatchOnly ==
  Returned(last)
    => \A k \in 1..Len(last.out.steps) :
         LET st == last.out.steps[k] IN
           /\ \A n \in 1..Len(st.matches) :
                SubSeq(st.before, st.matches[n].index, st.matches[n].end - 1) = st.original
           /\ ~Occurs(st.original, st.before) => st.matches = <<>> /\ st.after = st.before

\* a pair whose original has a special character met a content without it
C4_Witness ==
  /\ Applied(last)
  /\ \E k \in 1..Len(last.out.steps) :
       LET st == last.out.steps[k] IN
         /\ st.original = <<".">>
         /\ st.before # <<>>
         /\ st.matches = <<>>

\* C8: a target whose concrete path does not exist gives skipped, "File not
\* found", 0 replacements, without a read, a write or an exception
C8_MissingFileSkip ==
  LET targetFile == Or(arg.relativeFilePath, ConfigFile(arg.config)) IN
  (last.load = "value" /\ targetFile \notin {Undefined, <<>>}
     /\ (\/ ResolvePath(opencodeDir, targetFile) \notin DOMAIN last.before
         \/ last.before[ResolvePath(opencodeDir, targetFile)].kind = "none"))
    => /\ ~last.out.threw
       /\ last.out.result = [file |-> targetFile, replacements |-> 0, skipped |-> TRUE,
                             reason |-> "File not found"]
       /\ last.out.reads = <<>>
       /\ last.out.writes = <<>>
       /\ disk = last.before

C8_Witness ==
  /\ last.load = "value"
  /\ last.before[FileA].kind = "none"
  /\ Or(arg.relativeFilePath, ConfigFile(arg.config)) = SrcA
  /\ last.out.result.reason = "File not found"

\* C9: without an override and without a target path of its own (absent or
\* empty) the document is skipped, "No file specified", no file is touched
\* and no pair is applied
C9_UnspecifiedPathSkip ==
  (last.load = "value"
     /\ arg.relativeFilePath \in {Undefined, <<>>}
     /\ ConfigFile(arg.config) \in {Undefined, <<>>})
    => /\ ~last.out.threw
       /\ last.out.result = [file |-> <<"unknown">>, replacements |-> 0, skipped |-> TRUE,
                             reason |-> "No file specified"]
       /\ last.out.checked = <<>>
       /\ last.out.reads = <<>>
       /\ last.out.writes = <<>>
       /\ last.out.steps = <<>>
       /\ disk = last.before

\* a document with an empty target path and a pair that would match
C9_Witness ==
  /\ last.load = "value"
  /\ arg.relativeFilePath = Undefined
  /\ arg.config.file = <<>>
  /\ arg.config.replacements # <<>>
  /\ last.out.result.skipped
  /\ last.out.result.reason = "No file specified"

\* C10: one call writes the target at most once, writes it exactly when the
\* accumulated count is greater than zero, and leaves the disk as it was
\* when the count is zero
C10_WriteIffReplacements ==
  last.load = "value"
    => /\ Len(last.out.writes) <= 1
       /\ last.out.writes # <<>>
            => last.out.totalReplacements > 0 /\ last.out.writes = last.out.checked
       /\ (Applied(last) /\ last.out.result.replacements > 0) => last.out.writes # <<>>
       /\ last.out.totalReplacements = 0 => disk = last.before

\* a call that found no match and one that wrote
C10_Witness ==
  /\ calls >= 2 /\ Applied(prev) /\ Applied(last)
  /\ prev.out.writes # <<>>
  /\ last.out.steps # <<>>
  /\ last.out.writes = <<>>

\* the paths a call handed to existsSync, readFileSync and writeFileSync
Touched(out) ==
  {out.checked[i] : i \in 1..Len(out.checked)}
    \cup {out.reads[i] : i \in 1..Len(out.reads)}
    \cup {out.writes[i] : i \in 1..Len(out.writes)}

\* C14 as stated: every concrete path a call checks, reads or writes lies
\* under the tree root, whatever segments the logical path has
C14_PathsStayUnderRoot ==
  last.load = "value" => \A p \in Touched(last.out) : IsPrefix(opencodeDir, p)

\* C15: a logical path beginning with src/, or not beginning with packages/,
\* is nested under packages/opencode/, any other is used unchanged; the
\* outcome joined to the tree root is the path the call works on, whether
\* or not a file exists there
C15_PathResolution ==
  LET targetFile == Or(arg.relativeFilePath, ConfigFile(arg.config))
      underSrc == Len(targetFile) >= 2 /\ targetFile[1] = "src"
      underPackages == Len(targetFile) >= 2 /\ targetFile[1] = "packages"
      relativePath == IF underSrc \/ ~underPackages
                        THEN <<"packages", "opencode">> \o targetFile
                        ELSE targetFile
  IN (last.load = "value" /\ targetFile \notin {Undefined, <<>>})
       => last.out.checked = <<PathJoinAbs(opencodeDir, relativePath)>>

\* a path outside src/ and packages/ resolved although no file is there
C15_Witness ==
  /\ last.load = "value"
  /\ Or(arg.relativeFilePath, ConfigFile(arg.config)) = <<"a.ts">>
  /\ last.out.checked = << <<"oc", "packages", "opencode", "a.ts">> >>
  /\ last.out.result.skipped
  /\ last.out.result.reason = "File not found"

RECURSIVE CountLiteral(_, _, _)
\* the occurrences of original in s from position i on, found by comparing
\* characters from left to right, the next search starting after the last
\* occurrence found (one position on for the empty fragment)
CountLiteral(s, i, original) ==
  IF i > Len(s) + 1 THEN 0
  ELSE IF OccursAt(original, s, i)
    THEN 1 + CountLiteral(s, i + (IF original = <<>> THEN 1 ELSE Len(original)), original)
  ELSE CountLiteral(s, i + 1, original)

RECURSIVE SumCounts(_, _)
\* the counts of the first n pairs a call went through, each on the content
\* of the moment it was applied
SumCounts(steps, n) ==
  IF n = 0 THEN 0
  ELSE SumCounts(steps, n - 1) + CountLiteral(steps[n].before, 1, steps[n].original)

\* C18: a pair whose original differs from its translated value adds the
\* number of non-overlapping left-to-right occurrences of the original in
\* the content of that moment, and every one of them is replaced
C18_CountIsOccurrences ==
  last.load = "value"
    => /\ \A k \in 1..Len(last.out.steps) :
            LET st == last.out.steps[k] IN
              /\ st.original # st.translated
              /\ Len(st.matches) = CountLiteral(st.before, 1, st.original)
              /\ st.after = ReplaceAllLiteral(st.before, 1, st.original, st.translated)
       /\ last.out.totalReplacements = SumCounts(last.out.steps, Len(last.out.steps))
       /\ Applied(last) => last.out.result.replacements = last.out.totalReplacements

\* AA occurs twice with an overlap in AAA and is counted and replaced once
C18_Witness ==
  /\ Applied(last)
  /\ last.before[FileA].content = <<"A", "A", "A">>
  /\ last.out.entries = << <<<<"A", "A">>, <<"B">>>>, <<<<"A">>, <<"B">>>> >>
  /\ last.out.result.replacements = 2
  /\ disk[FileA].content = <<"B", "B">>

\* C19: in every result skipped means 0 replacements, a reason is present
\* exactly when the result is skipped and is then "No file specified" or
\* "File not found", and the count is a non-negative integer
C19_ResultWellFormed ==
  Returned(last)
    => LET result == last.out.result IN
         /\ result.skipped \in BOOLEAN
         /\ result.replacements \in Nat
         /\ result.skipped => result.replacements = 0
         /\ "reason" \in DOMAIN result <=> result.skipped
         /\ result.skipped => result.reason \in {"No file specified", "File not found"}
         /\ DOMAIN result \subseteq {"file", "replacements", "skipped", "reason"}

\* the second call of a document on a missing file: skipped again, with the
\* reason and a count of 0
C19_Witness ==
  /\ calls >= 2 /\ Returned(prev) /\ Returned(last)
  /\ last.out.result.skipped
  /\ last.out.result.reason = "File not found"
  /\ last.out.result.replacements = 0

\* the document with its pairs of equal original and translated value removed
WithoutEqualPairs(config) ==
  [config EXCEPT !.replacements =
     SelectSeq(config.replacements, LAMBDA p : p[1] # p[2])]

\* C20: a pair whose original equals its translated value adds nothing and
\* changes nothing: the call does what it does for the document without
\* such pairs, and a document that has only such pairs causes no write
C20_EqualPairsAreNoOps ==
  last.load = "value"
    => LET pairs == arg.config.replacements
           without == applyTranslation(last.before, opencodeDir,
                                       WithoutEqualPairs(arg.config), arg.relativeFilePath)
       IN /\ last.out.threw = without.threw
          /\ last.out.result = without.result
          /\ last.out.writes = without.writes
          /\ disk = without.disk
          /\ \A k \in 1..Len(last.out.steps) :
               last.out.steps[k].original # last.out.steps[k].translated
          /\ (\A i \in 1..Len(pairs) : pairs[i][1] = pairs[i][2])
               => /\ last.out.writes = <<>>
                  /\ last.out.totalReplacements = 0
                  /\ disk = last.before

\* a document whose only pair maps A to A met a file that has three of them
C20_Witness ==
  /\ Applied(last)
  /\ arg.config.replacements = << <<<<"A">>, <<"A">>>> >>
  /\ last.before[FileA].content = <<"A", "A", "A">>
  /\ last.out.result.replacements = 0
  /\ last.out.writes = <<>>
  /\ disk = last.before

\* ------------------------------------------------------------------------
\* Properties of the start of main (Spec)
\* ------------------------------------------------------------------------
\* C17: when translations/config.json is absent the load of the manifest
\* fails and the run stops before a document is loaded and before a target
\* file is checked, read or written
C17_MissingManifestStopsRun ==
  configJson.kind = "missing"
    => /\ pc \in {"start", "crashed"}
       /\ calls = 0
       /\ last = NoStep
       /\ stats = ZeroStats
       /\ disk = tree0
       /\ versionLog = "none"

\* the run ended at the load of the manifest, with documents and targets
\* that would have given replacements
C17_Witness ==
  /\ configJson.kind = "missing"
  /\ pc = "crashed"
  /\ TotalRefs >= 1
  /\ \E r \in Refs : translations[r].kind = "json"
  /\ disk[FileA].kind = "file"
  /\ disk = tree0

\* ------------------------------------------------------------------------
\* Properties of the order of the batch (Spec)
\* ------------------------------------------------------------------------
RECURSIVE RefsInOrder(_, _)
\* the references of the manifest m, category after category in the given order
RefsInOrder(m, order) ==
  IF order = <<>> THEN <<>>
  ELSE (IF m[Head(order)] = Undefined THEN <<>> ELSE m[Head(order)])
         \o RefsInOrder(m, Tail(order))

\* root, dialogs, components, routes, common
ExpectedRefs == RefsInOrder(modules, <<"root", "dialogs", "components", "routes", "common">>)

\* the run before its first document
Start == [disk |-> tree0, stats |-> ZeroStats, threw |-> FALSE]

\* the same references in every order
Reorderings(q) == {[i \in 1..Len(q) |-> q[f[i]]] : f \in Permutations(1..Len(q))}

\* the concrete path the document of a reference resolves to, <<>> if it has none
TargetOf(ref) ==
  LET f == translations[ref] IN
    IF f.kind = "json" /\ f.value.type = "object" /\ "file" \in f.value.keys
         /\ f.value.file \notin {Undefined, <<>>}
      THEN ResolvePath(opencodeDir, f.value.file)
      ELSE <<>>

\* no two references of the manifest resolve to the same concrete file
DistinctTargets ==
  \A i, j \in 1..Len(ExpectedRefs) :
    i # j => TargetOf(ExpectedRefs[i]) = <<>>
             \/ TargetOf(ExpectedRefs[i]) # TargetOf(ExpectedRefs[j])

\* the run reached its summary
ReachedSummary == configJson.kind = "json" /\ pc \in {"building", "done", "exit1"}

\* C11 as stated: the same references processed in any other order leave
\* the same tree and the same statistics
C11_OrderIrrelevant ==
  ReachedSummary
    => \A q \in Reorderings(ExpectedRefs) :
         LET run == processFiles(translations, Start, q) IN
           ~run.threw /\ run.disk = disk /\ run.stats = stats

\* C11 amended: when no two references resolve to the same concrete file, a
\* run that reaches its summary leaves the tree and the statistics that
\* every other order of the same references leaves
C11_OrderIrrelevantOnDistinctFiles ==
  (ReachedSummary /\ DistinctTargets)
    => \A q \in Reorderings(ExpectedRefs) :
         LET run == processFiles(translations, Start, q) IN
           ~run.threw /\ run.disk = disk /\ run.stats = stats

\* three references, two of them with replacements in two different files
C11_Witness ==
  /\ ReachedSummary /\ DistinctTargets
  /\ Len(ExpectedRefs) = 3
  /\ stats.filesProcessed = 2
  /\ stats.totalReplacements = 4
  /\ disk[FileA].content # tree0[FileA].content
  /\ disk[FileB].content # tree0[FileB].content

\* C12: the versions decide the line that is logged and nothing else: the
\* run goes on after a mismatch, and after any number of documents the tree
\* and the statistics are what the documents, taken in their order, give
\* from the tree the run started with
C12_VersionMismatchIsAdvisory ==
  (configJson.kind = "json" /\ pc # "start")
    => /\ versionLog = IF currentVersion # configJson.version THEN "mismatch" ELSE "match"
       /\ calls <= Len(ExpectedRefs)
       /\ LET run == processFiles(translations, Start, SubSeq(ExpectedRefs, 1, calls)) IN
            /\ run.disk = disk
            /\ run.stats = stats
            /\ run.threw <=> pc = "crashed"
       /\ pc \in {"building", "done", "exit1"} => calls = Len(ExpectedRefs)
       /\ pc = "exit1" => ~noBuild

\* a run that logged the mismatch and went on to replace and to finish
C12_Witness ==
  /\ currentVersion = "1.2.11"
  /\ configJson.version = "1.2.10"
  /\ versionLog = "mismatch"
  /\ pc = "done"
  /\ calls = 3
  /\ stats.totalReplacements > 0

\* C13: the references are attempted category after category in the order
\* root, dialogs, components, routes, common, an absent category giving
\* none, and inside a category in the order the manifest lists them
C13_FixedCategoryOrder ==
  (configJson.kind = "json" /\ calls >= 1)
    => /\ calls <= Len(ExpectedRefs)
       /\ last.file = ExpectedRefs[calls]
       /\ calls >= 2 => prev.file = ExpectedRefs[calls - 1]
       /\ pc \in {"building", "done", "exit1"} => calls = Len(ExpectedRefs)

\* routes before common, root, dialogs absent and components empty
C13_Witness ==
  /\ modules["root"] = Undefined
  /\ modules["routes"] = <<"d3.json", "d1.json">>
  /\ modules["common"] = <<"d2.json">>
  /\ pc = "done"
  /\ calls = 3
  /\ prev.file = "d1.json"
  /\ last.file = "d2.json"

\* the step met a document that cannot be parsed, or its applyTranslation threw
Fatal(step) ==
  /\ step.load # "none"
  /\ \/ translations[step.file].kind = "unparsable"
     \/ (step.load = "value" /\ step.out.threw)

\* C16: a fatal error ends the run at once: it is the last thing the run
\* did, the build is not started, and the tree is the one the failing
\* document found, with what earlier documents wrote
C16_FatalErrorTerminates ==
  (configJson.kind = "json" /\ calls >= 1)
    => /\ Fatal(last) => pc = "crashed" /\ disk = last.before
       /\ calls >= 2 => ~Fatal(prev)
       /\ pc = "crashed" => Fatal(last)
       /\ pc = "crashed"
            => disk = processFiles(translations, Start, SubSeq(ExpectedRefs, 1, calls - 1)).disk

\* the second of three documents failed after the first had written, with a
\* build requested
C16_Witness ==
  /\ pc = "crashed"
  /\ ~noBuild
  /\ calls = 2
  /\ Len(ExpectedRefs) = 3
  /\ Fatal(last)
  /\ prev.out.writes # <<>>
  /\ disk # tree0
  /\ disk = last.before

\* ------------------------------------------------------------------------
\* Properties of the inserted text (SpecEngine)
\* ------------------------------------------------------------------------
RECURSIVE ReplaceAllVerbatim(_, _, _, _)
\* s from position i on with every occurrence of original, found from left
\* to right, replaced by the characters of translated as they are
ReplaceAllVerbatim(s, i, original, translated) ==
  IF i > Len(s) + 1 THEN <<>>
  ELSE IF OccursAt(original, s, i)
    THEN translated
           \o (IF original = <<>>
                 THEN (IF i <= Len(s) THEN <<s[i]>> ELSE <<>>)
                        \o ReplaceAllVerbatim(s, i + 1, original, translated)
                 ELSE ReplaceAllVerbatim(s, i + Len(original), original, translated))
  ELSE (IF i <= Len(s) THEN <<s[i]>> ELSE <<>>)
         \o ReplaceAllVerbatim(s, i + 1, original, translated)

\* C27 as stated: what a pair leaves is the content with every occurrence
\* of its original replaced by exactly the characters of its translated value
C27_TranslatedInsertedVerbatim ==
  last.load = "value"
    => \A k \in 1..Len(last.out.steps) :
         LET st == last.out.steps[k] IN
           st.after = ReplaceAllVerbatim(st.before, 1, st.original, st.translated)

RECURSIVE Interleave(_, _)
\* t before every character of s and after the last one
Interleave(s, t) ==
  IF s = <<>> THEN t ELSE t \o <<Head(s)>> \o Interleave(Tail(s), t)

\* C29: a pair with the empty original and a translated value that is not
\* empty matches at each of the length+1 positions of the content of the
\* moment, adds length+1 to the count and inserts its text at each of them,
\* so a call that returns has written the file
C29_EmptyOriginalMatchesEverywhere ==
  last.load = "value"
    => /\ \A k \in 1..Len(last.out.steps) :
            LET st == last.out.steps[k] IN
              (st.original = <<>> /\ st.translated # <<>>)
                => /\ Len(st.matches) = Len(st.before) + 1
                   /\ \A n \in 1..Len(st.matches) :
                        st.matches[n] = [index |-> n, end |-> n]
                   /\ "$" \notin {st.translated[j] : j \in 1..Len(st.translated)}
                        => st.after = Interleave(st.before, st.translated)
       /\ \A i \in 1..Len(last.out.entries) :
            (last.out.entries[i][1] = <<>> /\ last.out.entries[i][2] # <<>>)
              => /\ \E k \in 1..Len(last.out.steps) : last.out.steps[k].original = <<>>
                 /\ last.out.totalReplacements >= 1
                 /\ last.out.writes # <<>>
                 /\ Applied(last) => disk # last.before

\* the second call of the document {"": "B"}: the file BAB it left is
\* rewritten again, with 4 replacements
C29_Witness ==
  /\ calls >= 2 /\ Applied(prev) /\ Applied(last)
  /\ arg.config.replacements = << <<<<>>, <<"B">>>> >>
  /\ prev.before[FileA].content = <<"A">>
  /\ last.before[FileA].content = <<"B", "A", "B">>
  /\ last.out.result.replacements = 4
  /\ disk[FileA].content = <<"B", "B", "B", "A", "B", "B", "B">>

C28_SameFileSequential ==
  (configJson.kind = "json" /\ calls >= 2 /\ Applied(prev) /\ Applied(last)
     /\ FileOf(prev) = FileOf(last))
    => LET f == FileOf(last)
           written == IF prev.out.steps = <<>> THEN prev.before[f].content
                      ELSE prev.out.steps[Len(prev.out.steps)].after
       IN /\ last.before[f].content = written
          /\ last.out.steps # <<>> => last.out.steps[1].before = written
          /\ last.out.result.replacements
               = SumCounts(last.out.steps, Len(last.out.steps))
          /\ stats.filesProcessed >= 2
          /\ stats.totalReplacements
               >= prev.out.result.replacements + last.out.result.replacements

\* src/a.ts and its alias packages/opencode/src/a.ts: A->B on AAA, then
\* B->C finds the three B the first document wrote
C28_Witness ==
  /\ calls >= 2 /\ Applied(prev) /\ Applied(last)
  /\ translations[prev.file].value.file = SrcA
  /\ translations[last.file].value.file = <<"packages", "opencode", "src", "a.ts">>
  /\ FileOf(prev) = FileOf(last)
  /\ prev.before[FileA].content = <<"A", "A", "A">>
  /\ last.out.result.replacements = 3
  /\ disk[FileA].content = <<"C", "C", "C">>
  /\ stats.filesProcessed = 2
  /\ stats.totalReplacements = 6

\* ------------------------------------------------------------------------
\* Properties of the command line (SpecCli)
\* ------------------------------------------------------------------------
\* the tree the README's list of five gives: the first that is available
ReadmeLocation(env, exists) ==
  IF env \notin {Undefined, <<>>} THEN env
  ELSE IF DefaultDir \in exists THEN DefaultDir
  ELSE IF RootPackage \in exists THEN <<"root", "opencode">>
  ELSE IF HomePackage \in exists THEN HomeDir \o <<"opencode">>
  ELSE IF ReadmeDotPackage \in exists THEN HomeDir \o <<".opencode", "opencode">>
  ELSE Null

\* C23 as stated: the tree is the first available of OPENCODE_SOURCE_DIR,
\* ~/.opencode-cn/opencode, /root/opencode/packages/opencode,
\* ~/opencode/packages/opencode, ~/.opencode/opencode/packages/opencode, and
\* none is reported only when none of them is available
C23_LocatedInDocumentedOrder ==
  cli.located # NotCalled => cli.located = ReadmeLocation(cli.env, cli.exists)

\* the test of the command name as the troubleshooting guide gives it
isRunCommandByName(execPath) ==
  \/ EndsWith(execPath, <<"opencode">>)
  \/ EndsWith(execPath, <<"opencode", ".exe">>)
  \/ EndsWith(execPath, <<"opencode", ".cmd">>)

\* C25 as stated: the binary is launched only under the command name
\* opencode, opencode.exe or opencode.cmd with a located tree, or with
\* --run; every other invocation without --run takes the install, upgrade
\* or localization flow
C25_LaunchOnlyByNameOrRun ==
  pc # "main"
    => /\ cli.flow = "launch"
            => \/ (isRunCommandByName(cli.execPath) /\ cli.located # Null)
               \/ "--run" \in cli.args
       /\ (~(isRunCommandByName(cli.execPath) /\ cli.located # Null)
             /\ "--run" \notin cli.args)
            => cli.flow \in {"install", "upgrade", "localize"}

\* the steps of a complete --install
InstallSteps == <<"clone", "clone ok", "deps", "deps ok", "apply", "build">>

Before(events, a, b) ==
  \E i, j \in 1..Len(events) : i < j /\ events[i] = a /\ events[j] = b

\* C30: the reset is started only after the fetch closed with 0 and only
\* if the versions differ or the latest tag is unknown; the installation
\* only after the reset closed with 0; the promise resolves only after the
\* installation closed with 0 or with equal versions, and is rejected by
\* every exit code that is not 0
C30_UpgradeSteps ==
  cli.flow = "upgrade"
    => LET ev == cli.events
           has(e) == \E i \in 1..Len(ev) : ev[i] = e
       IN /\ has("reset") => /\ Before(ev, "fetch ok", "reset")
                              /\ (cli.latest = "" \/ cli.latest # currentVersion)
          /\ has("install") => Before(ev, "reset ok", "install")
          /\ cli.promise = "resolved"
               => \/ ev[Len(ev)] = "install ok"
                  \/ (cli.latest # "" /\ cli.latest = currentVersion /\ ~has("reset"))
          /\ (has("fetch failed") \/ has("reset failed") \/ has("install failed"))
               => cli.promise = "rejected" /\ pc = "exit1"
          /\ cli.promise = "rejected" => ev[Len(ev)] \in {"fetch failed", "reset failed", "install failed"}

\* an upgrade that went through fetch, reset and installation
C30_Witness ==
  /\ cli.flow = "upgrade"
  /\ cli.events = <<"fetch", "fetch ok", "reset", "reset ok", "install", "install ok">>
  /\ cli.promise = "resolved"
  /\ pc = "upgraded"

====
